---- MODULE Spec2Model ----
(***************************************************************************)
(* Model of empyrical's local market-data accessors:                       *)
(*   empyrical/data.py     document-store (MongoDB) variant                *)
(*   empyrical/sqldata.py  relational-session (SQLAlchemy) variant         *)
(* Each accessor (stock returns, index returns, treasury curve) is one     *)
(* action that runs the whole function against the store.                  *)
(***************************************************************************)
EXTENDS Integers, Sequences, FiniteSets, TLC

VARIABLES store, sessions, last

vars == <<store, sessions, last>>

(***************************************************************************)
(* Bounds of the model.                                                    *)
(***************************************************************************)
\* calendar days are 1..MaxDate
MaxDate == 2
\* the store holds at most MaxRows rows over all its tables
MaxRows == 2

Dates == 1..MaxDate
\* a start_date argument the sanitizer cannot parse
BadDate == 0
Symbols == {"A", "B"}

(***************************************************************************)
(* Numbers: floats are modelled as reduced fractions, NaN is the missing   *)
(* value of pandas and propagates through arithmetic.                      *)
(***************************************************************************)
Abs(n) == IF n < 0 THEN -n ELSE n

RECURSIVE Gcd(_, _)
Gcd(a, b) == IF b = 0 THEN a ELSE Gcd(b, a % b)

Rat(n, d) ==
    LET g == Gcd(Abs(n), Abs(d))
        s == IF d < 0 THEN -1 ELSE 1
    IN  [nan |-> FALSE, num |-> (s * n) \div g, den |-> (s * d) \div g]

NaN == [nan |-> TRUE, num |-> 0, den |-> 1]

Zero == Rat(0, 1)

FloatDiv(x, k) == IF x.nan THEN NaN ELSE Rat(x.num, x.den * k)

FloatAdd(x, y) ==
    IF x.nan \/ y.nan THEN NaN
    ELSE Rat(x.num * y.den + y.num * x.den, x.den * y.den)

(***************************************************************************)
(* Outcomes of a step that may raise.                                      *)
(***************************************************************************)
Ok(v) == [ok |-> TRUE, exc |-> "", value |-> v]
Raise(e) == [ok |-> FALSE, exc |-> e, value |-> <<>>]

(***************************************************************************)
(* Sequence helpers.                                                       *)
(***************************************************************************)
RECURSIVE SelectIdx(_, _, _)
\* indices i of 1..n, ascending, with Keep[i]
SelectIdx(Keep, i, n) ==
    IF i > n THEN <<>>
    ELSE IF Keep[i] THEN <<i>> \o SelectIdx(Keep, i + 1, n)
    ELSE SelectIdx(Keep, i + 1, n)

Filter(seq, Test(_)) ==
    LET keep == [i \in 1..Len(seq) |-> Test(seq[i])]
        idx == SelectIdx(keep, 1, Len(seq))
    IN  [k \in 1..Len(idx) |-> seq[idx[k]]] \o <<>>

RECURSIVE InsertSorted(_, _, _)
\* stable insertion of index i into idx, ordered by keys: after every
\* index whose key is <= keys[i]
InsertSorted(idx, i, keys) ==
    IF idx = <<>> THEN <<i>>
    ELSE IF keys[Head(idx)] <= keys[i]
         THEN <<Head(idx)>> \o InsertSorted(Tail(idx), i, keys)
         ELSE <<i>> \o idx

RECURSIVE SortIdx(_, _)
\* the stable ascending argsort of keys[1..n]
SortIdx(keys, n) ==
    IF n = 0 THEN <<>>
    ELSE InsertSorted(SortIdx(keys, n - 1), n, keys)

\* seq reordered by the stable ascending sort of keys (one key per element)
SortBy(seq, keys) ==
    LET idx == SortIdx(keys, Len(seq))
    IN  [k \in 1..Len(seq) |-> seq[idx[k]]] \o <<>>

IndexOf(seq, x) == CHOOSE i \in 1..Len(seq) : seq[i] = x

Contains(seq, x) == \E i \in 1..Len(seq) : seq[i] = x

InsertAt(seq, loc, x) == SubSeq(seq, 1, loc) \o <<x>> \o SubSeq(seq, loc + 1, Len(seq))

RemoveAt(seq, i) == SubSeq(seq, 1, i - 1) \o SubSeq(seq, i + 1, Len(seq))

(***************************************************************************)
(* pandas: a DataFrame is its column labels, its rows (one tuple per row,  *)
(* aligned with the labels) and its index (one label per row); a Series    *)
(* is a name, an index and the values.                                     *)
(***************************************************************************)
RangeIndex(n) == [i \in 1..n |-> i - 1]

\* pd.DataFrame.from_records over dicts: no record gives a frame without
\* columns; otherwise the columns are the records' keys in their order
FromDicts(docs, keys) ==
    IF docs = <<>> THEN [columns |-> <<>>, rows |-> <<>>, index |-> <<>>]
    ELSE [columns |-> keys,
          rows |-> [i \in 1..Len(docs) |-> [k \in 1..Len(keys) |-> docs[i][keys[k]]]],
          index |-> RangeIndex(Len(docs))]

\* pd.DataFrame.from_records over tuples: the columns are labelled 0..n-1
FromTuples(tuples) ==
    IF tuples = <<>> THEN [columns |-> <<>>, rows |-> <<>>, index |-> <<>>]
    ELSE [columns |-> RangeIndex(Len(tuples[1])),
          rows |-> tuples,
          index |-> RangeIndex(Len(tuples))]

\* df.columns = names
SetColumns(df, names) ==
    IF Len(names) # Len(df.columns) THEN Raise("ValueError")
    ELSE Ok([df EXCEPT !.columns = names])

\* df[name]
GetCol(df, name) ==
    IF ~Contains(df.columns, name) THEN Raise("KeyError")
    ELSE Ok([i \in 1..Len(df.rows) |-> df.rows[i][IndexOf(df.columns, name)]])

\* df[name] = values  (an existing column is replaced, a new one is appended)
SetCol(df, name, values) ==
    IF Contains(df.columns, name)
    THEN [df EXCEPT !.rows = [i \in 1..Len(df.rows) |->
                       [df.rows[i] EXCEPT ![IndexOf(df.columns, name)] = values[i]]]]
    ELSE [df EXCEPT !.columns = Append(df.columns, name),
                    !.rows = [i \in 1..Len(df.rows) |-> Append(df.rows[i], values[i])]]

\* df.insert(loc, name, values)
InsertCol(df, loc, name, values) ==
    IF Contains(df.columns, name) THEN Raise("ValueError")
    ELSE IF loc < 0 \/ loc > Len(df.columns) THEN Raise("IndexError")
    ELSE Ok([df EXCEPT !.columns = InsertAt(df.columns, loc, name),
                       !.rows = [i \in 1..Len(df.rows) |->
                                    InsertAt(df.rows[i], loc, values[i])]])

\* df.drop(name, axis=1)
DropCol(df, name) ==
    LET c == IndexOf(df.columns, name)
    IN  [df EXCEPT !.columns = RemoveAt(df.columns, c),
                   !.rows = [i \in 1..Len(df.rows) |-> RemoveAt(df.rows[i], c)]]

\* df.set_index(name): the column becomes the index and leaves the columns
SetIndex(df, name) ==
    IF ~Contains(df.columns, name) THEN Raise("KeyError")
    ELSE Ok([DropCol(df, name) EXCEPT !.index = GetCol(df, name).value])

\* df.sort_index() over an index of timestamps
SortIndex(df) ==
    LET keys == [i \in 1..Len(df.index) |-> df.index[i].day]
    IN  [df EXCEPT !.rows = SortBy(df.rows, keys), !.index = SortBy(df.index, keys)]

\* what the drivers hand back for a stored day: pymongo a naive datetime,
\* SQLAlchemy a date
MongoDatetime(d) == [day |-> d, tz |-> "naive"]
SqlDate(d) == [day |-> d]

\* pd.to_datetime of a date or a datetime: a timezone-naive timestamp
ToDatetime(x) == [day |-> x.day, tz |-> "naive"]

\* tz_localize(tz) of the index
TzLocalize(df, tz) ==
    [df EXCEPT !.index = [i \in 1..Len(df.index) |-> [df.index[i] EXCEPT !.tz = tz]]]

\* df[name] of a frame with that column, as a Series
AsSeries(df, name) ==
    [name |-> name, index |-> df.index, values |-> GetCol(df, name).value]

\* series.fillna(v)
FillNa(ser, v) ==
    [ser EXCEPT !.values = [i \in 1..Len(ser.values) |->
                               IF ser.values[i].nan THEN v ELSE ser.values[i]]]

(***************************************************************************)
(* The date sanitizer (cnswd.utils.sanitize_dates): an unparsable date     *)
(* raises, otherwise the pair of dates comes back.                         *)
(***************************************************************************)
sanitize_dates(start, end) ==
    IF start = BadDate \/ end = BadDate THEN Raise("ValueError")
    ELSE Ok([start |-> start, end |-> end])

(***************************************************************************)
(* The index directory (cnswd.websource.wy.get_main_index): a table of     *)
(* display names by index code; "B" is unknown to it.                      *)
(***************************************************************************)
get_main_index == [code \in {"A"} |-> "IndexA"]

\* a faulty variant: the directory is never consulted
LookupName_always_symbol(names, symbol) == symbol

\* names.loc[symbol, 'name'] inside try/except KeyError
LookupName(names, symbol) ==
    IF symbol \in DOMAIN names THEN names[symbol] ELSE symbol

(***************************************************************************)
(* The store.  A daily table holds rows (code, date, pct): pct is the raw  *)
(* percent change, NaN when missing.  The treasury table holds one row per *)
(* date with a rate per maturity.  A table is a sequence: the order of its *)
(* rows is the order in which an unordered scan hands them back.  A        *)
(* (code, date) pair occurs at most once in a table.                       *)
(***************************************************************************)
\* the raw percent change stored for (code, date) when it is not missing
PctOf(code, date) ==
    IF code = "A" THEN Rat(2 * date + 1, 2) ELSE Rat(-(2 * date + 1), 4)

DailyRows ==
    UNION {{[code |-> c, date |-> d, pct |-> p] : p \in {NaN, PctOf(c, d)}} :
              c \in Symbols, d \in Dates}

\* the maturities of the treasury table, in the order of TREASURY_COL_MAPS
Maturities ==
    <<"m0", "m1", "m2", "m3", "m6", "m9", "y1", "y3", "y5", "y7", "y10", "y15",
      "y20", "y30", "y40", "y50">>

\* the keys of a treasury document, in the order the frame gets them
TreasuryDocKeys == <<"date">> \o Maturities

\* the rate stored for a maturity on a date when it is not missing
RateOf(m, date) == Rat(10 * IndexOf(Maturities, m) + date, 1000)

\* the treasury table keeps, per row, the date and the 1-year rate (NaN when
\* missing); the other maturities of the row are RateOf
TreasuryRows ==
    UNION {{[date |-> d, y1 |-> v] : v \in {NaN, RateOf("y1", d)}} : d \in Dates}

\* the full row of the treasury table: its date and a rate per maturity
TreasuryRow(r) ==
    [k \in {"date"} \cup {Maturities[i] : i \in 1..Len(Maturities)} |->
        IF k = "date" THEN r.date ELSE IF k = "y1" THEN r.y1 ELSE RateOf(k, r.date)]

\* the daily tables of k rows
DailyTables(k) ==
    {t \in [1..k -> DailyRows] :
        \A i, j \in 1..k :
            (t[i].code = t[j].code /\ t[i].date = t[j].date) => i = j}

\* the treasury tables of k rows
TreasuryTables(k) ==
    {t \in [1..k -> TreasuryRows] :
        \A i, j \in 1..k : t[i].date = t[j].date => i = j}

\* the stores of at most MaxRows rows, all in one table (an accessor reads
\* one table)
Stores ==
    UNION {[stock : DailyTables(k), index : {<<>>}, treasury : {<<>>}]
           \cup [stock : {<<>>}, index : DailyTables(k), treasury : {<<>>}]
           \cup [stock : {<<>>}, index : {<<>>}, treasury : TreasuryTables(k)] :
              k \in 0..MaxRows}

(***************************************************************************)
(* The state machine: the store, the number of open sessions, and the      *)
(* last call made, with what it returned or raised and the events of its   *)
(* run.  A call is [fn, symbol, start, end, up]: the accessor, its         *)
(* arguments, and whether the store answers during the call.               *)
(***************************************************************************)
StartInputs == Dates \cup {BadDate}
EndInputs == Dates

\* the requested ranges: an unparsable start, or start <= end
Ranges == {r \in StartInputs \X EndInputs : r[1] = BadDate \/ r[1] <= r[2]}

NoCall ==
    [fn |-> "none", symbol |-> "", start |-> BadDate, end |-> BadDate, up |-> TRUE,
     again |-> FALSE, result |-> Raise("none"), trace |-> <<>>]

NewCall(fn, symbol, range, up) ==
    [fn |-> fn, symbol |-> symbol, start |-> range[1], end |-> range[2], up |-> up]

\* a caller repeats the call it has just made, or makes any call once it
\* has taken the outcome of the last one
CanCall(call) ==
    \/ last = NoCall
    \/ /\ last.fn = call.fn /\ last.symbol = call.symbol /\ last.up = call.up
       /\ last.start = call.start /\ last.end = call.end

\* the call ends: it returns or raises result, having run the events of
\* trace, and leaves the store as st and n sessions open; again tells that
\* the call repeats the one before it
Finish(call, result, trace, st, n) ==
    /\ last' = [fn |-> call.fn, symbol |-> call.symbol, start |-> call.start,
                end |-> call.end, up |-> call.up, again |-> last # NoCall,
                result |-> result, trace |-> trace]
    /\ store' = st
    /\ sessions' = n

Init ==
    /\ store \in Stores
    /\ sessions = 0
    /\ last = NoCall

(***************************************************************************)
(* data.py: the document-store variant.  Reading the cursor of a store     *)
(* that does not answer raises.                                            *)
(***************************************************************************)
DAILY_COLS == <<"date", "change_pct">>

TREASURY_COL_MAPS ==
    [k \in {Maturities[i] : i \in 1..Len(Maturities)} |->
        CASE k = "m0" -> "cash"
          [] k = "m1" -> "1month"
          [] k = "m2" -> "2month"
          [] k = "m3" -> "3month"
          [] k = "m6" -> "6month"
          [] k = "m9" -> "9month"
          [] k = "y1" -> "1year"
          [] k = "y3" -> "3year"
          [] k = "y5" -> "5year"
          [] k = "y7" -> "7year"
          [] k = "y10" -> "10year"
          [] k = "y15" -> "15year"
          [] k = "y20" -> "20year"
          [] k = "y30" -> "30year"
          [] k = "y40" -> "40year"
          [] k = "y50" -> "50year"]

\* df.rename(columns=TREASURY_COL_MAPS)
RenameColumns(df) ==
    [df EXCEPT !.columns = [k \in 1..Len(df.columns) |->
                               IF df.columns[k] \in DOMAIN TREASURY_COL_MAPS
                               THEN TREASURY_COL_MAPS[df.columns[k]]
                               ELSE df.columns[k]]]

\* column / k
DivideBy(column, k) == [i \in 1..Len(column) |-> FloatDiv(column[i], k)]

\* pd.to_datetime(column)
ToDatetimes(column) == [i \in 1..Len(column) |-> ToDatetime(column[i])]

\* a faulty variant: a + b / 2, the parentheses forgotten
Interpolate_unparenthesised(a, b) ==
    [i \in 1..Len(a) |-> FloatAdd(a[i], FloatDiv(b[i], 2))]

\* (a + b) / 2 over two columns: the 2-year rate from the 1-year and 3-year rates
Interpolate(a, b) == [i \in 1..Len(a) |-> FloatDiv(FloatAdd(a[i], b[i]), 2)]

\* the documents of collection db[name]; "riqi" is the date field and
\* "zhangdiefu" the percent-change field of a daily document
Documents(collection) ==
    LET mine == Filter(collection.db, LAMBDA r : r.code = collection.name)
    IN  [i \in 1..Len(mine) |->
            [riqi |-> MongoDatetime(mine[i].date), zhangdiefu |-> mine[i].pct]]

\* a faulty variant: $lt for $lte, the end of the range is left out
query_end_exclusive(collection, start, end, up) ==
    LET found == Filter(Documents(collection),
                        LAMBDA d : d.riqi.day >= start /\ d.riqi.day < end)
        cursor == SortBy(found, [i \in 1..Len(found) |-> found[i].riqi.day])
    IN  [df |-> IF up THEN Ok(FromDicts(cursor, <<"riqi", "zhangdiefu">>))
                      ELSE Raise("StoreError"),
         db |-> collection.db]

\* a faulty variant: the documents read are taken out of the collection
query_consuming(collection, start, end, up) ==
    LET found == Filter(Documents(collection),
                        LAMBDA d : d.riqi.day >= start /\ d.riqi.day <= end)
        cursor == SortBy(found, [i \in 1..Len(found) |-> found[i].riqi.day])
    IN  [df |-> IF up THEN Ok(FromDicts(cursor, <<"riqi", "zhangdiefu">>))
                      ELSE Raise("StoreError"),
         db |-> Filter(collection.db,
                       LAMBDA r : ~(r.code = collection.name
                                    /\ r.date >= start /\ r.date <= end))]

\* query(collection, start, end): the frame of the documents with
\* start <= date <= end, sorted by date; the database is only read
query(collection, start, end, up) ==
    LET found == Filter(Documents(collection),
                        LAMBDA d : d.riqi.day >= start /\ d.riqi.day <= end)
        cursor == SortBy(found, [i \in 1..Len(found) |-> found[i].riqi.day])
    IN  [df |-> IF up THEN Ok(FromDicts(cursor, <<"riqi", "zhangdiefu">>))
                      ELSE Raise("StoreError"),
         db |-> collection.db]

\* log holds the events of the call so far
_get_single_stock_equity(call, log, is_index, index_name) ==
    \E s \in {sanitize_dates(call.start, call.end)} :
      IF ~s.ok THEN Finish(call, s, Append(log, "sanitize_dates"), store, sessions)
      ELSE
      \E db \in {IF is_index THEN store.index ELSE store.stock} :
      \E q \in {query([db |-> db, name |-> call.symbol],
                      s.value.start, s.value.end, call.up)} :
      \E st \in {IF is_index THEN [store EXCEPT !.index = q.db]
                             ELSE [store EXCEPT !.stock = q.db]} :
      \E touched \in {log \o <<"sanitize_dates", "get_db", "find">>} :
        IF ~q.df.ok THEN Finish(call, q.df, touched, st, sessions)
        ELSE
        \E c \in {SetColumns(q.df.value, DAILY_COLS)} :
          IF ~c.ok THEN Finish(call, c, touched, st, sessions)
          ELSE
          \E df1 \in {SetCol(c.value, "change_pct",
                             DivideBy(GetCol(c.value, "change_pct").value, 100))} :
          \E df2 \in {SetCol(df1, "date", ToDatetimes(GetCol(df1, "date").value))} :
          \E df3 \in {SetIndex(df2, "date").value} :
          \E df4 \in {SortIndex(df3)} :
          \E res \in {AsSeries(TzLocalize(df4, "UTC"), "change_pct")} :
          \E named \in {[res EXCEPT !.name = index_name]} :
            Finish(call, Ok(FillNa(named, Zero)), touched, st, sessions)

get_single_stock_equity(call) ==
    _get_single_stock_equity(call, <<>>, FALSE, call.symbol)

get_single_index_equity(call) ==
    \E names \in {get_main_index} :
    \E index_name \in {LookupName(names, call.symbol)} :
      _get_single_stock_equity(call, <<"get_main_index">>, TRUE, index_name)

get_treasury_data(call) ==
    \E s \in {sanitize_dates(call.start, call.end)} :
      IF ~s.ok THEN Finish(call, s, <<"sanitize_dates">>, store, sessions)
      ELSE
      \E found \in {Filter(store.treasury,
                           LAMBDA d : d.date >= s.value.start /\ d.date <= s.value.end)} :
      \E sorted \in {SortBy(found, [i \in 1..Len(found) |-> found[i].date])} :
      \E cursor \in {[i \in 1..Len(sorted) |->
                        [TreasuryRow(sorted[i]) EXCEPT
                            !["date"] = MongoDatetime(sorted[i].date)]]} :
      \E touched \in {<<"sanitize_dates", "get_db", "find">>} :
        IF ~call.up THEN Finish(call, Raise("StoreError"), touched, store, sessions)
        ELSE
        \E df \in {FromDicts(cursor, TreasuryDocKeys)} :
        \E y1 \in {GetCol(df, "y1")}, y3 \in {GetCol(df, "y3")} :
          IF ~y1.ok THEN Finish(call, y1, touched, store, sessions)
          ELSE IF ~y3.ok THEN Finish(call, y3, touched, store, sessions)
          ELSE
          \E value \in {Interpolate(y1.value, y3.value)} :
          \E ins \in {InsertCol(df, 7, "2year", value)} :
            IF ~ins.ok THEN Finish(call, ins, touched, store, sessions)
            ELSE
            \E renamed \in {RenameColumns(ins.value)} :
            \E idx \in {SetIndex(renamed, "date")} :
              IF ~idx.ok THEN Finish(call, idx, touched, store, sessions)
              ELSE Finish(call, Ok(TzLocalize(idx.value, "UTC")), touched,
                          store, sessions)

(***************************************************************************)
(* sqldata.py: the relational-session variant.  sessions counts the open   *)
(* sessions; "with session_scope(...) as sess" opens one on entry and      *)
(* closes it when the block is left, by return or by exception.  Each      *)
(* accessor is its sanitizing first line followed by its with block.       *)
(***************************************************************************)
TREASURY_COLS ==
    <<"date", "1month", "3month", "6month", "1year", "3year", "5year", "7year",
      "10year", "20year", "30year">>

SessionEnter(n) == n + 1

\* a faulty variant: the session is closed on the normal exit only
SessionExit_on_return_only(n, ok) == IF ok THEN n - 1 ELSE n

SessionExit(n, ok) == n - 1

\* query.all(): the rows, or the failure of a store that does not answer
QueryAll(rows, up) == IF up THEN Ok(rows \o <<>>) ELSE Raise("StoreError")

\* the rows of table with start <= date <= end: .between(start, end)
Between(table, start, end) ==
    Filter(table, LAMBDA r : r.date >= start /\ r.date <= end)

\* the with block of get_single_stock_equity
StockSession(call, log, start, end) ==
    \E open \in {SessionEnter(sessions)} :
    \E found \in {Between(Filter(store.stock, LAMBDA r : r.code = call.symbol),
                          start, end)} :
    \E all \in {QueryAll([i \in 1..Len(found) |->
                            <<SqlDate(found[i].date), found[i].pct>>], call.up)} :
    \E touched \in {log \o <<"session_enter", "query_all", "session_exit">>} :
      IF ~all.ok THEN Finish(call, all, touched, store, SessionExit(open, FALSE))
      ELSE
      \E df \in {FromTuples(all.value)} :
      \E c \in {SetColumns(df, DAILY_COLS)} :
        IF ~c.ok THEN Finish(call, c, touched, store, SessionExit(open, FALSE))
        ELSE
        \E df1 \in {SetCol(c.value, "change_pct",
                           DivideBy(GetCol(c.value, "change_pct").value, 100))} :
        \E df2 \in {SetCol(df1, "date", ToDatetimes(GetCol(df1, "date").value))} :
        \E df3 \in {SetIndex(df2, "date").value} :
        \E res \in {AsSeries(TzLocalize(df3, "UTC"), "change_pct")} :
        \E named \in {[res EXCEPT !.name = call.symbol]} :
          Finish(call, Ok(FillNa(named, Zero)), touched, store, SessionExit(open, TRUE))

sql_get_single_stock_equity(call) ==
    \E s \in {sanitize_dates(call.start, call.end)} :
      IF ~s.ok THEN Finish(call, s, <<"sanitize_dates">>, store, sessions)
      ELSE StockSession(call, <<"sanitize_dates">>, s.value.start, s.value.end)

\* the with block of get_single_index_equity
IndexSession(call, log, start, end) ==
    \E open \in {SessionEnter(sessions)} :
    \E found \in {Between(Filter(store.index, LAMBDA r : r.code = call.symbol),
                          start, end)} :
    \E all \in {QueryAll([i \in 1..Len(found) |->
                            <<SqlDate(found[i].date), found[i].pct>>], call.up)} :
      IF ~all.ok
      THEN Finish(call, all, log \o <<"session_enter", "query_all", "session_exit">>,
                  store, SessionExit(open, FALSE))
      ELSE
      \E df \in {FromTuples(all.value)} :
      \E c \in {SetColumns(df, DAILY_COLS)} :
        IF ~c.ok
        THEN Finish(call, c, log \o <<"session_enter", "query_all", "session_exit">>,
                    store, SessionExit(open, FALSE))
        ELSE
        \E df1 \in {SetCol(c.value, "change_pct",
                           DivideBy(GetCol(c.value, "change_pct").value, 100))} :
        \E df2 \in {SetCol(df1, "date", ToDatetimes(GetCol(df1, "date").value))} :
        \E df3 \in {SetIndex(df2, "date").value} :
        \E res \in {AsSeries(TzLocalize(df3, "UTC"), "change_pct")} :
        \E names \in {get_main_index} :
        \E name \in {LookupName(names, call.symbol)} :
          Finish(call, Ok([res EXCEPT !.name = name]),
                 log \o <<"session_enter", "query_all", "get_main_index", "session_exit">>,
                 store, SessionExit(open, TRUE))

sql_get_single_index_equity(call) ==
    \E s \in {sanitize_dates(call.start, call.end)} :
      IF ~s.ok THEN Finish(call, s, <<"sanitize_dates">>, store, sessions)
      ELSE IndexSession(call, <<"sanitize_dates">>, s.value.start, s.value.end)

\* the with block of get_treasury_data
TreasurySession(call, log, start, end) ==
    \E open \in {SessionEnter(sessions)} :
    \E found \in {Between(store.treasury, start, end)} :
    \E row \in {[i \in 1..Len(found) |-> TreasuryRow(found[i])] \o <<>>} :
    \E all \in {QueryAll([i \in 1..Len(row) |->
                            <<SqlDate(row[i].date), row[i].m1, row[i].m3, row[i].m6,
                              row[i].y1, row[i].y3, row[i].y5, row[i].y7,
                              row[i].y10, row[i].y20, row[i].y30>>], call.up)} :
    \E touched \in {log \o <<"session_enter", "query_all", "session_exit">>} :
      IF ~all.ok THEN Finish(call, all, touched, store, SessionExit(open, FALSE))
      ELSE
      \E df \in {FromTuples(all.value)} :
      \E c \in {SetColumns(df, TREASURY_COLS)} :
        IF ~c.ok THEN Finish(call, c, touched, store, SessionExit(open, FALSE))
        ELSE
        \E df1 \in {SetCol(c.value, "2year",
                           Interpolate(GetCol(c.value, "1year").value,
                                       GetCol(c.value, "3year").value))} :
        \E df2 \in {[df1 EXCEPT !.index = ToDatetimes(GetCol(df1, "date").value)]} :
        \E df3 \in {DropCol(df2, "date")} :
          Finish(call, Ok(TzLocalize(df3, "UTC")), touched, store,
                 SessionExit(open, TRUE))

\* a faulty variant: the dates are sanitized inside the with block, after
\* the query
sql_get_treasury_data_sanitize_late(call) ==
    \E s \in {sanitize_dates(call.start, call.end)} :
      IF ~s.ok
      THEN Finish(call, s,
                  <<"session_enter", "query_all", "sanitize_dates", "session_exit">>,
                  store, SessionExit(SessionEnter(sessions), FALSE))
      ELSE TreasurySession(call, <<"sanitize_dates">>, s.value.start, s.value.end)

sql_get_treasury_data(call) ==
    \E s \in {sanitize_dates(call.start, call.end)} :
      IF ~s.ok THEN Finish(call, s, <<"sanitize_dates">>, store, sessions)
      ELSE TreasurySession(call, <<"sanitize_dates">>, s.value.start, s.value.end)

(***************************************************************************)
(* The calls a caller can make.                                            *)
(***************************************************************************)
DocStock ==
    \E symbol \in Symbols, range \in Ranges, up \in BOOLEAN :
    \E call \in {NewCall("data.get_single_stock_equity", symbol, range, up)} :
        CanCall(call) /\ get_single_stock_equity(call)

DocIndex ==
    \E symbol \in Symbols, range \in Ranges, up \in BOOLEAN :
    \E call \in {NewCall("data.get_single_index_equity", symbol, range, up)} :
        CanCall(call) /\ get_single_index_equity(call)

DocTreasury ==
    \E range \in Ranges, up \in BOOLEAN :
    \E call \in {NewCall("data.get_treasury_data", "", range, up)} :
        CanCall(call) /\ get_treasury_data(call)

SqlStock ==
    \E symbol \in Symbols, range \in Ranges, up \in BOOLEAN :
    \E call \in {NewCall("sqldata.get_single_stock_equity", symbol, range, up)} :
        CanCall(call) /\ sql_get_single_stock_equity(call)

SqlIndex ==
    \E symbol \in Symbols, range \in Ranges, up \in BOOLEAN :
    \E call \in {NewCall("sqldata.get_single_index_equity", symbol, range, up)} :
        CanCall(call) /\ sql_get_single_index_equity(call)

SqlTreasury ==
    \E range \in Ranges, up \in BOOLEAN :
    \E call \in {NewCall("sqldata.get_treasury_data", "", range, up)} :
        CanCall(call) /\ sql_get_treasury_data(call)

\* the caller takes the outcome of the last call
Return ==
    /\ last # NoCall
    /\ last' = NoCall
    /\ UNCHANGED <<store, sessions>>

Next ==
    \/ DocStock \/ DocIndex \/ DocTreasury
    \/ SqlStock \/ SqlIndex \/ SqlTreasury
    \/ Return

Spec == Init /\ [][Next]_vars

(***************************************************************************)
(* What the properties below speak about.                                  *)
(***************************************************************************)
StockFns == {"data.get_single_stock_equity", "sqldata.get_single_stock_equity"}
IndexFns == {"data.get_single_index_equity", "sqldata.get_single_index_equity"}
TreasuryFns == {"data.get_treasury_data", "sqldata.get_treasury_data"}
DailyFns == StockFns \cup IndexFns
SqlFns ==
    {"sqldata.get_single_stock_equity", "sqldata.get_single_index_equity",
     "sqldata.get_treasury_data"}

\* the events of a call that reach the store
StoreEvents == {"get_db", "find", "session_enter", "query_all", "session_exit"}

Called == last.fn # "none"
Returned == Called /\ last.result.ok

\* the rows of the store the last call asks for
AskedDaily ==
    LET t == IF last.fn \in StockFns THEN store.stock ELSE store.index
    IN  {r \in {t[i] : i \in 1..Len(t)} :
            r.code = last.symbol /\ last.start <= r.date /\ r.date <= last.end}

AskedTreasury ==
    {r \in {store.treasury[i] : i \in 1..Len(store.treasury)} :
        last.start <= r.date /\ r.date <= last.end}

NothingAsked ==
    IF last.fn \in TreasuryFns THEN AskedTreasury = {} ELSE AskedDaily = {}

\* the value of column name in row i of the table returned
Cell(table, i, name) == table.rows[i][IndexOf(table.columns, name)]

\* x is the mean of a and b, missing when one of them is
IsMean(x, a, b) ==
    IF a.nan \/ b.nan THEN x.nan
    ELSE ~x.nan /\ 2 * x.num * a.den * b.den = (a.num * b.den + b.num * a.den) * x.den

\* x is pct / 100
IsHundredth(x, pct) == ~x.nan /\ x.num * 100 * pct.den = pct.num * x.den

(***************************************************************************)
(* C1: every series the stock and index accessors return, in both          *)
(* variants, has a strictly ascending date index whose dates lie within    *)
(* [start, end], whatever the order in which the store hands back rows.    *)
(***************************************************************************)
C1_AscendingWithinRange ==
    (Returned /\ last.fn \in DailyFns) =>
        LET idx == last.result.value.index
        IN  /\ \A i \in 1..Len(idx) - 1 : idx[i].day < idx[i + 1].day
            /\ \A i \in 1..Len(idx) : last.start <= idx[i].day /\ idx[i].day <= last.end

(***************************************************************************)
(* C2: every series the stock and index accessors return, in both          *)
(* variants, holds no missing value: a row whose raw percent change is     *)
(* missing appears with the value 0.0.                                     *)
(***************************************************************************)
C2_NoMissingValue ==
    (Returned /\ last.fn \in DailyFns) =>
        LET ser == last.result.value
        IN  /\ \A i \in 1..Len(ser.values) : ~ser.values[i].nan
            /\ \A r \in AskedDaily :
                  r.pct.nan => \E i \in 1..Len(ser.index) :
                                  ser.index[i].day = r.date /\ ser.values[i] = Zero

(***************************************************************************)
(* C3: a call of any accessor whose range query matches no row returns an  *)
(* empty series or table and does not raise.                               *)
(***************************************************************************)
C3_EmptyWithoutRaising ==
    (Called /\ last.start # BadDate /\ last.up /\ NothingAsked) =>
        (last.result.ok /\ Len(last.result.value.index) = 0)

(***************************************************************************)
(* C4: in every row of every table get_treasury_data returns, in both      *)
(* variants, the '2year' value is ('1year' + '3year') / 2 of that row.     *)
(***************************************************************************)
C4_TwoYearIsMean ==
    (Returned /\ last.fn \in TreasuryFns) =>
        LET t == last.result.value
        IN  \A i \in 1..Len(t.rows) :
                IsMean(Cell(t, i, "2year"), Cell(t, i, "1year"), Cell(t, i, "3year"))

C4_Witness ==
    /\ Returned /\ last.fn \in TreasuryFns
    /\ \E i \in 1..Len(last.result.value.rows) :
          ~Cell(last.result.value, i, "2year").nan

C6_ExactlyTheRowsAsked ==
    (Returned /\ last.fn \in DailyFns) =>
        LET ser == last.result.value
        IN  /\ Len(ser.index) = Cardinality(AskedDaily)
            /\ \A r \in AskedDaily :
                  \E i \in 1..Len(ser.index) :
                      /\ ser.index[i].day = r.date
                      /\ ~r.pct.nan => IsHundredth(ser.values[i], r.pct)

C6_Witness ==
    /\ Returned /\ last.fn \in DailyFns
    /\ \E r \in AskedDaily : r.date = last.end /\ ~r.pct.nan
    /\ Len(store.stock) + Len(store.index) > Cardinality(AskedDaily)

(***************************************************************************)
(* C7: every call releases the session it opened before it returns, on     *)
(* the normal return, on a failure of the query and on a failure of the    *)
(* reshaping after it: no session of a finished call is still open.        *)
(***************************************************************************)
C7_SessionsReleased ==
    /\ sessions = 0
    /\ Called =>
          \A i \in 1..Len(last.trace) :
              last.trace[i] = "session_enter" =>
                  \E j \in i + 1..Len(last.trace) : last.trace[j] = "session_exit"

C7_Witness ==
    /\ Called /\ last.fn \in SqlFns /\ ~last.result.ok
    /\ last.start # BadDate /\ last.up
    /\ Contains(last.trace, "session_enter")
    /\ sessions = 0

C9_TwoYearPlace ==
    /\ (Returned /\ last.fn = "sqldata.get_treasury_data") =>
          last.result.value.columns = Tail(TREASURY_COLS) \o <<"2year">>
    /\ (Returned /\ last.fn = "data.get_treasury_data") =>
          LET cols == last.result.value.columns
          IN  /\ cols[7] = "2year"
              /\ RemoveAt(cols, 7) =
                    [k \in 1..Len(Maturities) |-> TREASURY_COL_MAPS[Maturities[k]]]
              /\ cols[6] = "1year"
              /\ cols[8] = "3year"

(***************************************************************************)
(* C10: the sanitizer runs before any access to the store; when it fails   *)
(* the failure reaches the caller, no session is opened and no query is    *)
(* issued.                                                                 *)
(***************************************************************************)
C10_SanitizerFirst ==
    Called =>
        /\ \A i \in 1..Len(last.trace) :
              last.trace[i] \in StoreEvents =>
                  \E j \in 1..i - 1 : last.trace[j] = "sanitize_dates"
        /\ last.start = BadDate =>
              /\ ~last.result.ok
              /\ last.result.exc = "ValueError"
              /\ \A i \in 1..Len(last.trace) : last.trace[i] \notin StoreEvents
              /\ sessions = 0

C10_Witness ==
    /\ Called /\ last.start = BadDate
    /\ Contains(last.trace, "sanitize_dates")

====
